---- MODULE Spec2Model ----
(***************************************************************************)
(* pydocs: the document store behind /files (upload, list, detail,         *)
(* update, delete, new version), the helpers it is built from, the tagging *)
(* workflow and the database session manager.                              *)
(*                                                                         *)
(* Conventions of the model                                                *)
(*  - a filename is the tuple of its "."-separated pieces:                 *)
(*    "notes.txt" is <<"notes","txt">>, ".pdf" is <<"","pdf">>, "" is      *)
(*    <<"">>, and a missing filename (None) is <<>>;                       *)
(*  - an absent Optional[str] is the string NoneStr;                       *)
(*  - a file body is a sequence of bytes, a storage path a number, a       *)
(*    user id a number, a document id a number handed out at commit;       *)
(*  - the database holds committed rows only: every handler runs in its    *)
(*    own session, so a handler that raises leaves the rows as they were;  *)
(*  - a string the code takes apart (an LLM response, a tag name) is the   *)
(*    sequence of its characters;                                          *)
(*  - tasks holds one record per asyncio task upload_document created, in  *)
(*    creation order: the run of the tagging workflow it carries.          *)
(*  - inflight holds the new-version requests that have loaded their      *)
(*    document and not yet committed, where requests are interleaved.      *)
(***************************************************************************)
EXTENDS Integers, Sequences, FiniteSets, TLC

VARIABLES docs, versions, disk, nextId, tasks, tags, doc_tags, resp,
          versionUploads, faults, call, inflight

vars == <<docs, versions, disk, nextId, tasks, tags, doc_tags, resp,
          versionUploads, faults, call, inflight>>

\* ------------------------------------------------------------------ bounds
MaxDocs == 1
MaxFiles == 3
MaxFaults == 1
MaxLen == 4
MaxShared == 2
MaxText == 3
MaxOps == 4
MaxRequests == 2

\* --------------------------------------------------------------- constants
\* settings.MAX_UPLOAD_SIZE is read from the environment; the model runs
\* with a ceiling of two bytes.  The read size of the streaming loop (8192
\* in the source) is scaled with it, so that a body that fits still takes
\* more than one chunk.
MAX_UPLOAD_SIZE == 2
ChunkSize == 1

NoneStr == "<none>"
OctetStream == "application/octet-stream"
ALLOWED_EXTENSIONS == {"txt", "pdf", "md", "html", "htm"}
Users == {1, 2}
Bytes == {0, 1}

Min(a, b) == IF a < b THEN a ELSE b

\* ------------------------------------------------------------- file names
\* str.lower() on the pieces the model uses
LowerTable ==
    ("PDF" :> "pdf") @@ ("Txt" :> "txt") @@ ("MD" :> "md") @@ ("HTM" :> "htm")
    @@ ("EXE" :> "exe") @@ ("REPORT" :> "report")
    @@ ("A" :> "a") @@ ("B" :> "b") @@ ("D" :> "d") @@ ("I" :> "i")
    @@ ("P" :> "p") @@ ("W" :> "w")

Lower(tok) == IF tok \in DOMAIN LowerTable THEN LowerTable[tok] ELSE tok

\* Path(filename).suffix, without its leading dot ("" when there is none):
\* the text after the last dot, unless that dot is the first or the last
\* character of the name
Suffix(name) ==
    LET n == Len(name)
    IN  IF n >= 2 /\ name[n] # "" /\ ~(n = 2 /\ name[1] = "")
        THEN name[n]
        ELSE ""

\* Path(filename).stem
Stem(name) ==
    IF Suffix(name) # "" THEN SubSeq(name, 1, Len(name) - 1) ELSE name

\* "not upload_file.filename": None or the empty string
NoFilename(name) == name = <<>> \/ name = <<"">>

\* validate_file comparing the extension as typed, without .lower()
ValidateFileCaseSensitive(file) ==
    IF NoFilename(file.filename) THEN "filename_required"
    ELSE IF Suffix(file.filename) \notin ALLOWED_EXTENSIONS
         THEN "type_not_allowed"
         ELSE "ok"

\* validate_file: "ok", or the reason of the HTTP 400 it raises
ValidateFile(file) ==
    IF NoFilename(file.filename) THEN "filename_required"
    ELSE IF Lower(Suffix(file.filename)) \notin ALLOWED_EXTENSIONS
         THEN "type_not_allowed"
         ELSE "ok"

\* get_document_type_from_mime letting the MIME type decide before any
\* extension is looked at
GetDocumentTypeMimeFirst(mime_type, filename) ==
    LET extension == Lower(Suffix(filename))
    IN  IF mime_type = "application/pdf" THEN "pdf"
        ELSE IF mime_type = "text/markdown" THEN "markdown"
        ELSE IF mime_type = "text/html" THEN "html"
        ELSE IF extension = "pdf" THEN "pdf"
        ELSE IF extension = "md" THEN "markdown"
        ELSE IF extension \in {"html", "htm"} THEN "html"
        ELSE "text"

\* get_document_type_from_mime
GetDocumentTypeFromMime(mime_type, filename) ==
    LET extension == Lower(Suffix(filename))
    IN  IF mime_type = "application/pdf" \/ extension = "pdf" THEN "pdf"
        ELSE IF mime_type = "text/markdown" \/ extension = "md" THEN "markdown"
        ELSE IF mime_type = "text/html" \/ extension \in {"html", "htm"}
             THEN "html"
             ELSE "text"

\* ----------------------------------------------------------------- digest
\* hashlib.sha256 as an injective fold over the bytes fed to it (bijective
\* base-2 numeration): distinct byte strings have distinct digests
Sha256Init == 0

RECURSIVE Sha256Update(_, _)
Sha256Update(h, chunk) ==
    IF chunk = <<>> THEN h
    ELSE Sha256Update(2 * h + chunk[1] + 1, Tail(chunk))

\* the digest of a whole byte string, fed in one piece
Sha256(content) == Sha256Update(Sha256Init, content)

\* ------------------------------------------------------------------- disk
Unlink(dk, p) == [q \in DOMAIN dk \ {p} |-> dk[q]]

WriteFile(dk, p, content) ==
    [q \in DOMAIN dk \cup {p} |-> IF q = p THEN content ELSE dk[q]]

\* the streaming loop with a digest object created anew for every chunk
RECURSIVE StreamLoopFreshDigest(_, _, _, _)
StreamLoopFreshDigest(rest, file_size, h, written) ==
    IF rest = <<>>
    THEN [ok |-> TRUE, file_size |-> file_size, checksum |-> h,
          written |-> written]
    ELSE LET k     == Min(ChunkSize, Len(rest))
             chunk == SubSeq(rest, 1, k)
             size2 == file_size + Len(chunk)
         IN  IF size2 > MAX_UPLOAD_SIZE
             THEN [ok |-> FALSE, file_size |-> size2, checksum |-> h,
                   written |-> written]
             ELSE StreamLoopFreshDigest(SubSeq(rest, k + 1, Len(rest)), size2,
                                        Sha256Update(Sha256Init, chunk),
                                        written \o chunk)

\* the while loop of save_upload_file: read a chunk, count it, abort when
\* the count passes the ceiling, else hash it and append it to the file
RECURSIVE StreamLoop(_, _, _, _)
StreamLoop(rest, file_size, h, written) ==
    IF rest = <<>>
    THEN [ok |-> TRUE, file_size |-> file_size, checksum |-> h,
          written |-> written]
    ELSE LET k     == Min(ChunkSize, Len(rest))
             chunk == SubSeq(rest, 1, k)
             size2 == file_size + Len(chunk)
         IN  IF size2 > MAX_UPLOAD_SIZE
             THEN [ok |-> FALSE, file_size |-> size2, checksum |-> h,
                   written |-> written]
             ELSE StreamLoop(SubSeq(rest, k + 1, Len(rest)), size2,
                             Sha256Update(h, chunk), written \o chunk)

\* the 413 branch without its os.unlink
AbortPartialKeepFile(dk, p) == dk

\* what the 413 branch leaves of the partial file: close, then os.unlink
AbortPartial(dk, p) == Unlink(dk, p)

\* save_upload_file(upload_file, owner_id) writing to the fresh path p
SaveUploadFile(content, p, dk) ==
    LET r      == StreamLoop(content, 0, Sha256Init, <<>>)
        opened == WriteFile(dk, p, r.written)
    IN  IF r.ok
        THEN [status |-> 200, disk |-> opened, file_size |-> r.file_size,
              checksum |-> r.checksum]
        ELSE [status |-> 413, disk |-> AbortPartial(opened, p),
              file_size |-> r.file_size, checksum |-> r.checksum]

\* uuid4 file name: a path no file and no row uses
UsedPaths ==
    DOMAIN disk \cup {docs[d].file_path : d \in DOMAIN docs}
                \cup {versions[i].file_path : i \in DOMAIN versions}

HasFreshPath == (1..MaxFiles) \ UsedPaths # {}

FreshPath == CHOOSE p \in (1..MaxFiles) \ UsedPaths :
                 \A q \in (1..MaxFiles) \ UsedPaths : p <= q

\* ----------------------------------------------------------------- inputs
Body(n, first) == [i \in 1..n |-> (i + first) % 2]

\* uploads that pass validation and fit, one that is too large by one
\* byte, and uploads validate_file refuses
GoodFiles ==
    { [filename |-> <<"notes", "txt">>, content_type |-> "text/plain",
       content |-> Body(MAX_UPLOAD_SIZE, 0)],
      [filename |-> <<"REPORT", "PDF">>, content_type |-> NoneStr,
       content |-> Body(1, 0)] }

BigFiles ==
    { [filename |-> <<"big", "md">>, content_type |-> "text/markdown",
       content |-> Body(MAX_UPLOAD_SIZE + 1, 1)] }

BadFiles ==
    { [filename |-> <<"setup", "EXE">>, content_type |-> OctetStream,
       content |-> Body(1, 1)],
      [filename |-> <<"", "pdf">>, content_type |-> "application/pdf",
       content |-> Body(1, 1)],
      [filename |-> <<"README">>, content_type |-> "text/plain",
       content |-> Body(1, 1)],
      [filename |-> <<"">>, content_type |-> "text/plain",
       content |-> Body(1, 1)],
      [filename |-> <<>>, content_type |-> "text/plain",
       content |-> Body(1, 1)] }

UploadFiles == GoodFiles \cup BigFiles \cup BadFiles

Titles == {NoneStr}

\* where an injected database failure strikes: nowhere, at commit() or at
\* the refresh() after it
Faults == {"none", "commit", "refresh"}

NoBody == {}

\* the file part of a request that carries none
NoFile == [filename |-> <<>>, content_type |-> NoneStr, content |-> <<>>]

\* the last request (operation, acting user, document id, and as file its
\* payload: the uploaded file, or the patch of an update that passed the
\* lookup and the ownership check) and the response it got (status code,
\* body)
Response(op, user, doc, status, body, file) ==
    [op |-> op, user |-> user, doc |-> doc, status |-> status, body |-> body,
     file |-> file]

\* a call of a helper function on its own: its arguments and its result
NoCall == [mime_type |-> NoneStr, filename |-> <<>>, result |-> NoneStr]

\* ---------------------------------------------------- extract_text_metadata
\* the file's bytes decoded as UTF-8, one code point per character; the
\* decoder knows one-byte and two-byte sequences, and the inputs of the
\* model use no lead byte of a longer sequence.  Any other byte makes the
\* read raise UnicodeDecodeError (ok is FALSE).
RECURSIVE Utf8Decode(_)
Utf8Decode(bytes) ==
    IF bytes = <<>> THEN [ok |-> TRUE, chars |-> <<>>]
    ELSE IF bytes[1] < 128
    THEN LET r == Utf8Decode(Tail(bytes))
         IN  [ok |-> r.ok, chars |-> <<bytes[1]>> \o r.chars]
    ELSE IF bytes[1] \in 194..223 /\ Len(bytes) >= 2 /\ bytes[2] \in 128..191
    THEN LET r == Utf8Decode(SubSeq(bytes, 3, Len(bytes)))
         IN  [ok |-> r.ok,
              chars |-> <<(bytes[1] - 192) * 64 + (bytes[2] - 128)>>
                            \o r.chars]
    ELSE [ok |-> FALSE, chars |-> <<>>]

\* the file's bytes decoded as latin-1: every byte is the code point of one
\* character, and no byte is refused
Latin1Decode(bytes) == [i \in 1..Len(bytes) |-> bytes[i]]

\* what reading in text mode makes of the decoded characters: "\r\n" and a
\* lone "\r" both arrive as "\n"
RECURSIVE UniversalNewlines(_)
UniversalNewlines(chars) ==
    IF chars = <<>> THEN <<>>
    ELSE IF chars[1] = 13 /\ Len(chars) >= 2 /\ chars[2] = 10
    THEN <<10>> \o UniversalNewlines(SubSeq(chars, 3, Len(chars)))
    ELSE IF chars[1] = 13
    THEN <<10>> \o UniversalNewlines(Tail(chars))
    ELSE <<chars[1]>> \o UniversalNewlines(Tail(chars))

\* the characters below U+0100 that str.split() treats as separators
SplitWhitespace == {9, 10, 11, 12, 13, 28, 29, 30, 31, 32, 133, 160}

\* len(content.split("\n"))
CountLines(chars) == Cardinality({i \in 1..Len(chars) : chars[i] = 10}) + 1

\* the words counted as content.split(" ") would cut them, without its
\* empty pieces
CountWordsBySpace(chars) ==
    Cardinality({i \in 1..Len(chars) :
                    /\ chars[i] # 32
                    /\ i = 1 \/ chars[i - 1] = 32})

\* len(content.split()): the maximal runs of characters that are not
\* whitespace
CountWords(chars) ==
    Cardinality({i \in 1..Len(chars) :
                    /\ chars[i] \notin SplitWhitespace
                    /\ i = 1 \/ chars[i - 1] \in SplitWhitespace})

\* the dict returned after a successful read (content_preview left out)
TextCounts(chars, encoding) ==
    [line_count |-> CountLines(chars), word_count |-> CountWords(chars),
     character_count |-> Len(chars), encoding |-> encoding]

\* extract_text_metadata letting the UnicodeDecodeError go
ExtractTextMetadataNoFallback(content, io1, io2) ==
    IF io1 # "ok" THEN [f \in {} |-> NoneStr]
    ELSE IF Utf8Decode(content).ok
    THEN TextCounts(UniversalNewlines(Utf8Decode(content).chars), "utf-8")
    ELSE [raised |-> "UnicodeDecodeError"]

\* extract_text_metadata(file_path) on a file holding content; io1 and io2
\* say whether opening and reading the file works ("ok") or raises an
\* OSError, in the UTF-8 attempt and in the latin-1 attempt
ExtractTextMetadata(content, io1, io2) ==
    IF io1 # "ok" THEN [f \in {} |-> NoneStr]
    ELSE IF Utf8Decode(content).ok
    THEN TextCounts(UniversalNewlines(Utf8Decode(content).chars), "utf-8")
    ELSE IF io2 # "ok" THEN [encoding |-> "binary"]
    ELSE TextCounts(UniversalNewlines(Latin1Decode(content)), "latin-1")

\* the columns of TextDocument the dict fills; a key the dict lacks leaves
\* the column at its default
TextColumns(meta) ==
    [encoding |-> IF "encoding" \in DOMAIN meta THEN meta.encoding
                  ELSE "utf-8",
     line_count |-> IF "line_count" \in DOMAIN meta THEN meta.line_count
                    ELSE NoneStr,
     word_count |-> IF "word_count" \in DOMAIN meta THEN meta.word_count
                    ELSE NoneStr,
     character_count |-> IF "character_count" \in DOMAIN meta
                         THEN meta.character_count
                         ELSE NoneStr]

\* ------------------------------------------------------------------- Init
Init ==
    /\ docs = [d \in {} |-> 0]
    /\ versions = <<>>
    /\ disk = [p \in {} |-> <<>>]
    /\ nextId = 1
    /\ tasks = <<>>
    /\ tags = {}
    /\ doc_tags = {}
    /\ resp = Response("none", 0, 0, 0, NoBody, NoFile)
    /\ versionUploads = [d \in 1..MaxDocs |-> 0]
    /\ faults = <<>>
    /\ call = NoCall
    /\ inflight = <<>>

\* ---------------------------------------------------------- upload_document
\* the Document row upload_document builds (TextDocument or PDFDocument)
NewDocument(file, title, is_public, user, p, saved) ==
    LET mime_type == IF file.content_type = NoneStr THEN OctetStream
                     ELSE file.content_type
        doc_type  == GetDocumentTypeFromMime(mime_type, file.filename)
        common    ==
            [title |-> IF title = NoneStr THEN Stem(file.filename)
                       ELSE <<title>>,
             description |-> NoneStr,
             document_type |-> doc_type,
             kind |-> IF doc_type = "pdf" THEN "pdf" ELSE "text",
             status |-> "draft",
             file_path |-> p,
             file_name |-> file.filename,
             file_size |-> saved.file_size,
             mime_type |-> mime_type,
             checksum |-> saved.checksum,
             is_public |-> is_public,
             owner_id |-> user]
    IN  IF doc_type = "pdf" THEN common
        ELSE common
                 @@ TextColumns(ExtractTextMetadata(file.content, "ok", "ok"))

\* the except branch without its os.unlink
CleanupUploadKeepFile(dk, p) == dk

\* the except branch of upload_document: drop the file just written
CleanupUpload(dk, p) == IF p \in DOMAIN dk THEN Unlink(dk, p) ELSE dk

\* db.add(document); db.commit()
InsertDocument(rows, d, row) ==
    [e \in DOMAIN rows \cup {d} |-> IF e = d THEN row ELSE rows[e]]

\* asyncio.create_task called once more for the same document
CreateTaskTwice(runs, d, title) ==
    runs \o << [document_id |-> d, document_title |-> title, step |-> "start",
                suggested_tags |-> <<>>, result |-> NoneStr],
               [document_id |-> d, document_title |-> title, step |-> "start",
                suggested_tags |-> <<>>, result |-> NoneStr] >>

\* asyncio.create_task(trigger_document_tagging(...)): a new run of the
\* workflow, scheduled and not awaited; it has not taken a step yet
CreateTask(runs, d, title) ==
    Append(runs, [document_id |-> d, document_title |-> title,
                  step |-> "start", suggested_tags |-> <<>>,
                  result |-> NoneStr])

UploadDocument(user, file, title, is_public, fault) ==
    /\ HasFreshPath
    /\ UNCHANGED <<versions, versionUploads>>
    /\ IF ValidateFile(file) # "ok"
       THEN /\ resp' = Response("upload", user, 0, 400, NoBody, file)
            /\ UNCHANGED <<docs, disk, nextId, tasks, tags, doc_tags>>
       ELSE LET p     == FreshPath
                saved == SaveUploadFile(file.content, p, disk)
                row   == NewDocument(file, title, is_public, user, p, saved)
            IN  IF saved.status = 413
                THEN /\ disk' = saved.disk
                     /\ resp' = Response("upload", user, 0, 413, NoBody, file)
                     /\ UNCHANGED <<docs, nextId, tasks, tags, doc_tags>>
                ELSE IF fault = "commit"
                THEN /\ disk' = CleanupUpload(saved.disk, p)
                     /\ resp' = Response("upload", user, 0, 500, NoBody, file)
                     /\ UNCHANGED <<docs, nextId, tasks, tags, doc_tags>>
                ELSE IF fault = "refresh"
                THEN /\ docs' = InsertDocument(docs, nextId, row)
                     /\ nextId' = nextId + 1
                     /\ disk' = CleanupUpload(saved.disk, p)
                     /\ resp' = Response("upload", user, nextId, 500, NoBody, file)
                     /\ UNCHANGED <<tasks, tags, doc_tags>>
                ELSE /\ docs' = InsertDocument(docs, nextId, row)
                     /\ nextId' = nextId + 1
                     /\ disk' = saved.disk
                     /\ tasks' = CreateTask(tasks, nextId, row.title)
                     /\ UNCHANGED <<tags, doc_tags>>
                     /\ resp' = Response("upload", user, nextId, 201, {row}, file)

\* ------------------------------------------------------------ get_document
\* the fields DocumentDetailResponse carries
DetailResponse(d) == {docs[d]}

\* get_document without an access check
MayReadAnyone(row, user) == TRUE

\* get_document with the owner check of the write handlers
MayReadOwnerOnly(row, user) == row.owner_id = user

\* the access check of get_document: owner, or anyone when public
MayRead(row, user) == row.owner_id = user \/ row.is_public

GetDocument(user, d) ==
    /\ UNCHANGED <<docs, versions, disk, nextId, tasks, tags, doc_tags,
                   versionUploads>>
    /\ IF d \notin DOMAIN docs
       THEN resp' = Response("get", user, d, 404, NoBody, NoFile)
       ELSE IF ~MayRead(docs[d], user)
       THEN resp' = Response("get", user, d, 403, NoBody, NoFile)
       ELSE resp' = Response("get", user, d, 200, DetailResponse(d), NoFile)

\* --------------------------------------------------------- update_document
\* DocumentUpdateRequest.model_dump(exclude_unset=True): the fields the
\* request sets, as a record
Patches ==
    { [is_public |-> TRUE, status |-> "published"] }

\* requests that set one field, the three other fields, or none
PartialPatches ==
    { [title |-> <<"Renamed">>],
      [description |-> "summary", is_public |-> TRUE, status |-> "published"],
      [f \in {} |-> NoneStr] }

\* the patch applied as model_dump() without exclude_unset gives it: the
\* fields the request leaves out are set to None
ApplyPatchUnset(row, patch) ==
    [f \in DOMAIN row |->
        IF f \in DOMAIN patch THEN patch[f]
        ELSE IF f = "title" THEN <<NoneStr>>
        ELSE IF f = "description" THEN NoneStr
        ELSE row[f]]

\* setattr(document, field, value) for every field of the patch
ApplyPatch(row, patch) ==
    [f \in DOMAIN row |-> IF f \in DOMAIN patch THEN patch[f] ELSE row[f]]

\* the write handlers with the access check of get_document
MayWriteIfPublic(row, user) == row.owner_id = user \/ row.is_public

\* the ownership check of update, delete and new version
MayWrite(row, user) == row.owner_id = user

UpdateDocument(user, d, patch, fault) ==
    /\ UNCHANGED <<versions, disk, nextId, tasks, tags, doc_tags,
                   versionUploads>>
    /\ IF d \notin DOMAIN docs
       THEN /\ resp' = Response("update", user, d, 404, NoBody, NoFile)
            /\ UNCHANGED docs
       ELSE IF ~MayWrite(docs[d], user)
       THEN /\ resp' = Response("update", user, d, 403, NoBody, NoFile)
            /\ UNCHANGED docs
       ELSE IF fault = "commit"
       THEN /\ resp' = Response("update", user, d, 500, NoBody, patch)
            /\ UNCHANGED docs
       ELSE /\ docs' = [docs EXCEPT ![d] = ApplyPatch(docs[d], patch)]
            /\ resp' = IF fault = "refresh"
                       THEN Response("update", user, d, 500, NoBody, patch)
                       ELSE Response("update", user, d, 200,
                                     {ApplyPatch(docs[d], patch)}, patch)

\* --------------------------------------------------------- delete_document
\* db.delete(document) without the cascade to the DocumentVersion rows
WithoutDocumentKeepVersions(rows, d) == rows

\* db.delete(document): the row and, by cascade, its DocumentVersion rows
RECURSIVE WithoutDocument(_, _)
WithoutDocument(rows, d) ==
    IF rows = <<>> THEN <<>>
    ELSE IF Head(rows).document_id = d THEN WithoutDocument(Tail(rows), d)
         ELSE <<Head(rows)>> \o WithoutDocument(Tail(rows), d)

\* ON DELETE CASCADE of document_tags.document_id
WithoutAssociations(pairs, d) == {pr \in pairs : pr[1] # d}

DeleteDocument(user, d, fault) ==
    /\ UNCHANGED <<nextId, tasks, tags>>
    /\ IF d \notin DOMAIN docs
       THEN /\ resp' = Response("delete", user, d, 404, NoBody, NoFile)
            /\ UNCHANGED <<docs, versions, disk, doc_tags, versionUploads>>
       ELSE IF ~MayWrite(docs[d], user)
       THEN /\ resp' = Response("delete", user, d, 403, NoBody, NoFile)
            /\ UNCHANGED <<docs, versions, disk, doc_tags, versionUploads>>
       ELSE /\ disk' = IF docs[d].file_path \in DOMAIN disk
                       THEN Unlink(disk, docs[d].file_path)
                       ELSE disk
            /\ IF fault = "commit"
               THEN /\ resp' = Response("delete", user, d, 500, NoBody, NoFile)
                    /\ UNCHANGED <<docs, versions, doc_tags, versionUploads>>
               ELSE /\ docs' = [e \in DOMAIN docs \ {d} |-> docs[e]]
                    /\ versions' = WithoutDocument(versions, d)
                    /\ doc_tags' = WithoutAssociations(doc_tags, d)
                    /\ versionUploads' = [versionUploads EXCEPT ![d] = 0]
                    /\ resp' = Response("delete", user, d, 204, NoBody, NoFile)

\* ------------------------------------------------------ upload_new_version
\* document.versions of document d, in the order the rows were created
RECURSIVE VersionsOf(_, _)
VersionsOf(rows, d) ==
    IF rows = <<>> THEN <<>>
    ELSE IF Head(rows).document_id = d
         THEN <<Head(rows)>> \o VersionsOf(Tail(rows), d)
         ELSE VersionsOf(Tail(rows), d)

\* max([v.version_number for v in current_versions], default=0)
RECURSIVE MaxVersionNumber(_)
MaxVersionNumber(rows) ==
    IF rows = <<>> THEN 0
    ELSE LET m == MaxVersionNumber(Tail(rows))
         IN  IF Head(rows).version_number > m THEN Head(rows).version_number
             ELSE m

\* next_version - 1 if next_version > 1 else 1
SnapshotNumber(next_version) ==
    IF next_version > 1 THEN next_version - 1 ELSE 1

\* a snapshot row that drops the checksum of the state it records
SnapshotNoChecksum(d, row, user) ==
    [document_id |-> d,
     version_number |->
         SnapshotNumber(MaxVersionNumber(VersionsOf(versions, d)) + 1),
     file_path |-> row.file_path,
     file_size |-> row.file_size,
     checksum |-> Sha256Init,
     created_by_id |-> user]

\* the DocumentVersion row recording the state about to be replaced
Snapshot(d, row, user) ==
    LET next_version == MaxVersionNumber(VersionsOf(versions, d)) + 1
    IN  [document_id |-> d,
         version_number |-> SnapshotNumber(next_version),
         file_path |-> row.file_path,
         file_size |-> row.file_size,
         checksum |-> row.checksum,
         created_by_id |-> user]

\* the Document row after the new file's fields are assigned
Reupload(row, file, p, saved) ==
    LET updated ==
            [row EXCEPT !.file_path = p,
                        !.file_name = IF NoFilename(file.filename) THEN @
                                      ELSE file.filename,
                        !.file_size = saved.file_size,
                        !.checksum = saved.checksum,
                        !.mime_type = IF file.content_type = NoneStr THEN @
                                      ELSE file.content_type]
        meta == ExtractTextMetadata(file.content, "ok", "ok")
    IN  IF row.kind = "text"
        THEN [f \in DOMAIN updated |->
                 IF f \in DOMAIN meta THEN meta[f] ELSE updated[f]]
        ELSE updated

\* a failed commit that leaves the pending rows in the table
RollbackKeepPending(committed, pending) == pending

\* session.rollback() after an exception in the request: of the rows the
\* session added or changed nothing is kept
Rollback(committed, pending) == committed

UploadNewVersion(user, d, file, fault) ==
    /\ HasFreshPath
    /\ UNCHANGED <<nextId, tasks, tags, doc_tags>>
    /\ IF d \notin DOMAIN docs
       THEN /\ resp' = Response("version", user, d, 404, NoBody, file)
            /\ UNCHANGED <<docs, versions, disk, versionUploads>>
       ELSE IF ~MayWrite(docs[d], user)
       THEN /\ resp' = Response("version", user, d, 403, NoBody, file)
            /\ UNCHANGED <<docs, versions, disk, versionUploads>>
       ELSE IF ValidateFile(file) # "ok"
       THEN /\ resp' = Response("version", user, d, 400, NoBody, file)
            /\ UNCHANGED <<docs, versions, disk, versionUploads>>
       ELSE LET p     == FreshPath
                saved == SaveUploadFile(file.content, p, disk)
                row   == Reupload(docs[d], file, p, saved)
            IN  /\ disk' = saved.disk
                /\ IF saved.status = 413
                   THEN /\ resp' = Response("version", user, d, 413, NoBody, file)
                        /\ UNCHANGED <<docs, versions, versionUploads>>
                   ELSE IF fault = "commit"
                   THEN /\ resp' = Response("version", user, d, 500, NoBody, file)
                        /\ versions' =
                               Rollback(versions,
                                        Append(versions,
                                               Snapshot(d, docs[d], user)))
                        /\ docs' = Rollback(docs, [docs EXCEPT ![d] = row])
                        /\ UNCHANGED versionUploads
                   ELSE /\ versions' = Append(versions,
                                              Snapshot(d, docs[d], user))
                        /\ docs' = [docs EXCEPT ![d] = row]
                        /\ IF fault = "refresh"
                           THEN /\ resp' = Response("version", user, d, 500,
                                                    NoBody, file)
                                /\ UNCHANGED versionUploads
                           ELSE /\ resp' = Response("version", user, d, 200,
                                                    {row}, file)
                                /\ versionUploads' =
                                       [versionUploads EXCEPT ![d] = @ + 1]

\* -------------------------------------------------------- tagging workflow
\* str.strip(): the whitespace characters the model uses
Whitespace == {" ", "\n"}

RECURSIVE LStrip(_)
LStrip(str) ==
    IF str # <<>> /\ Head(str) \in Whitespace THEN LStrip(Tail(str)) ELSE str

RECURSIVE RStrip(_)
RStrip(str) ==
    IF str # <<>> /\ str[Len(str)] \in Whitespace
    THEN RStrip(SubSeq(str, 1, Len(str) - 1))
    ELSE str

Strip(str) == RStrip(LStrip(str))

\* str.lower(), character by character
LowerStr(str) == [i \in 1..Len(str) |-> Lower(str[i])]

\* str.split(sep): the pieces between the separators, at least one piece
RECURSIVE Split(_, _)
Split(str, sep) ==
    IF \A i \in 1..Len(str) : str[i] # sep THEN <<str>>
    ELSE LET i == CHOOSE k \in 1..Len(str) :
                      str[k] = sep /\ \A j \in 1..(k - 1) : str[j] # sep
         IN  <<SubSeq(str, 1, i - 1)>>
                 \o Split(SubSeq(str, i + 1, Len(str)), sep)

\* [tag.strip().lower() for tag in tags if tag.strip()]
RECURSIVE CleanTags(_)
CleanTags(pieces) ==
    IF pieces = <<>> THEN <<>>
    ELSE IF Strip(Head(pieces)) = <<>> THEN CleanTags(Tail(pieces))
         ELSE <<LowerStr(Strip(Head(pieces)))>> \o CleanTags(Tail(pieces))

\* the seen / unique_tags loop
RECURSIVE UniqueTags(_, _)
UniqueTags(names, seen) ==
    IF names = <<>> THEN <<>>
    ELSE IF Head(names) \in seen THEN UniqueTags(Tail(names), seen)
         ELSE <<Head(names)>>
                  \o UniqueTags(Tail(names), seen \cup {Head(names)})

\* unique_tags[:7]
TagLimit == 7

\* _parse_tags_from_response without the seen / unique_tags loop
ParseTagsKeepDuplicates(response) ==
    LET names == CleanTags(Split(Strip(response), ","))
    IN  SubSeq(names, 1, Min(TagLimit, Len(names)))

\* DocumentTaggingWorkflow._parse_tags_from_response
ParseTagsFromResponse(response) ==
    LET names  == CleanTags(Split(Strip(response), ","))
        unique == UniqueTags(names, {})
    IN  SubSeq(unique, 1, Min(TagLimit, Len(unique)))

\* what self.llm.acomplete(prompt) does: it raises, or it returns a text
LlmOutcomes ==
    { [ok |-> FALSE, text |-> <<>>],
      [ok |-> TRUE, text |-> <<>>],
      [ok |-> TRUE, text |-> <<"a", "i", ",", " ", "A", "I", ",", "d", "b">>] }

\* "async with get_db() as db" with get_db usable as a context manager
EnterDbSessionOpened == "session"

\* "async with get_db() as db": get_db is an async generator function
\* (database.py), and the async generator object it returns has no
\* __aenter__; the statement raises TypeError before any session exists
EnterDbSession == "TypeError"

\* start_tagging: StartEvent -> DocumentTagEvent
StartTagging(i) ==
    /\ tasks[i].step = "start"
    /\ tasks' = [tasks EXCEPT ![i].step = "generate"]
    /\ UNCHANGED <<docs, versions, disk, nextId, tags, doc_tags, resp,
                   versionUploads>>

\* generate_tags: DocumentTagEvent -> TagGenerationEvent.  The lookup of the
\* existing tag names (_get_existing_tags) only feeds the prompt and returns
\* [] when it fails.  An exception of the LLM call is not caught in the step:
\* it leaves workflow.run() and ends in the except branch of
\* trigger_document_tagging, which logs it; the run has no result.
GenerateTags(i, outcome) ==
    /\ tasks[i].step = "generate"
    /\ tasks' = IF outcome.ok
                THEN [tasks EXCEPT
                          ![i].step = "apply",
                          ![i].suggested_tags =
                              ParseTagsFromResponse(outcome.text)]
                ELSE [tasks EXCEPT ![i].step = "raised"]
    /\ UNCHANGED <<docs, versions, disk, nextId, tags, doc_tags, resp,
                   versionUploads>>

\* the for loop of apply_tags: reuse the Tag row of that name or create one,
\* and associate it with the document unless it already is
RECURSIVE ApplyLoop(_, _, _, _)
ApplyLoop(names, d, tg, dt) ==
    IF names = <<>> THEN [tags |-> tg, doc_tags |-> dt]
    ELSE LET existing == {t \in tg : t.name = Head(names)}
             tag == IF existing # {} THEN CHOOSE t \in existing : TRUE
                    ELSE [id |-> Cardinality(tg) + 1, name |-> Head(names)]
         IN  ApplyLoop(Tail(names), d, tg \cup {tag}, dt \cup {<<d, tag.id>>})

\* the except branch of apply_tags letting the exception go
ApplyFailedReraise(run) == [run EXCEPT !.step = "raised"]

\* the except branch of apply_tags: StopEvent carrying the error text
ApplyFailed(run) ==
    [run EXCEPT !.step = "done", !.result = "Error applying tags"]

\* apply_tags: TagGenerationEvent -> StopEvent
ApplyTags(i, fault) ==
    /\ tasks[i].step = "apply"
    /\ UNCHANGED <<docs, versions, disk, nextId, resp, versionUploads>>
    /\ LET run == tasks[i]
           d   == run.document_id
       IN  IF EnterDbSession # "session"
           THEN /\ tasks' = [tasks EXCEPT ![i] = ApplyFailed(run)]
                /\ UNCHANGED <<tags, doc_tags>>
           ELSE IF d \notin DOMAIN docs
           THEN /\ tasks' = [tasks EXCEPT ![i].step = "done",
                                          ![i].result = "Document not found"]
                /\ UNCHANGED <<tags, doc_tags>>
           ELSE IF fault = "commit"
           THEN /\ tasks' = [tasks EXCEPT ![i] = ApplyFailed(run)]
                /\ UNCHANGED <<tags, doc_tags>>
           ELSE LET r == ApplyLoop(run.suggested_tags, d, tags, doc_tags)
                IN  /\ tags' = r.tags
                    /\ doc_tags' = r.doc_tags
                    /\ tasks' = [tasks EXCEPT
                                     ![i].step = "done",
                                     ![i].result = "Successfully applied tags"]

\* ------------------------------------------------------------------- Next
Upload(fault) ==
    /\ nextId <= MaxDocs
    /\ \E user \in Users, file \in UploadFiles, title \in Titles,
          is_public \in BOOLEAN :
           UploadDocument(user, file, title, is_public, fault)

Get == \E user \in Users, d \in 1..MaxDocs : GetDocument(user, d)

Update(fault) ==
    \E user \in Users, d \in 1..MaxDocs, patch \in Patches :
        UpdateDocument(user, d, patch, fault)

Delete(fault) ==
    \E user \in Users, d \in 1..MaxDocs : DeleteDocument(user, d, fault)

NewVersion(fault) ==
    \E user \in Users, d \in 1..MaxDocs, file \in UploadFiles :
        UploadNewVersion(user, d, file, fault)

Start == \E i \in DOMAIN tasks : StartTagging(i)

Generate ==
    \E i \in DOMAIN tasks, outcome \in LlmOutcomes : GenerateTags(i, outcome)

Apply(fault) == \E i \in DOMAIN tasks : ApplyTags(i, fault)

\* a database failure is injected into at most MaxFaults requests; faults
\* lists the failures injected so far
Inject(fault) ==
    /\ Len(faults) < MaxFaults
    /\ faults' = Append(faults, fault)
    /\ UNCHANGED <<call, inflight>>
    /\ \/ Upload(fault)
       \/ Update(fault)
       \/ fault # "refresh" /\ Delete(fault)
       \/ NewVersion(fault)
       \/ fault # "refresh" /\ Apply(fault)

Next ==
    \/ Upload("none") /\ UNCHANGED <<faults, call, inflight>>
    \/ Get /\ UNCHANGED <<faults, call, inflight>>
    \/ Update("none") /\ UNCHANGED <<faults, call, inflight>>
    \/ Delete("none") /\ UNCHANGED <<faults, call, inflight>>
    \/ NewVersion("none") /\ UNCHANGED <<faults, call, inflight>>
    \/ Start /\ UNCHANGED <<faults, call, inflight>>
    \/ Generate /\ UNCHANGED <<faults, call, inflight>>
    \/ Apply("none") /\ UNCHANGED <<faults, call, inflight>>
    \/ \E fault \in Faults \ {"none"} : Inject(fault)

Spec == Init /\ [][Next]_vars

\* the same handlers with no database failure injected
NextNoFault ==
    \/ Upload("none") /\ UNCHANGED <<faults, call, inflight>>
    \/ Get /\ UNCHANGED <<faults, call, inflight>>
    \/ Update("none") /\ UNCHANGED <<faults, call, inflight>>
    \/ Delete("none") /\ UNCHANGED <<faults, call, inflight>>
    \/ NewVersion("none") /\ UNCHANGED <<faults, call, inflight>>
    \/ Start /\ UNCHANGED <<faults, call, inflight>>
    \/ Generate /\ UNCHANGED <<faults, call, inflight>>
    \/ Apply("none") /\ UNCHANGED <<faults, call, inflight>>

SpecNoFault == Init /\ [][NextNoFault]_vars

\* ------------------------------------------- several documents side by side
\* up to MaxShared documents, uploaded, patched, re-uploaded, read and
\* deleted by both users; the files pass validation and no database failure
\* is injected
InitShared ==
    /\ docs = [d \in {} |-> 0]
    /\ versions = <<>>
    /\ disk = [p \in {} |-> <<>>]
    /\ nextId = 1
    /\ tasks = <<>>
    /\ tags = {}
    /\ doc_tags = {}
    /\ resp = Response("none", 0, 0, 0, NoBody, NoFile)
    /\ versionUploads = [d \in 1..MaxShared |-> 0]
    /\ faults = <<>>
    /\ call = NoCall
    /\ inflight = <<>>

UploadShared ==
    /\ nextId <= MaxShared
    /\ \E user \in Users, file \in GoodFiles, title \in Titles :
           UploadDocument(user, file, title, FALSE, "none")

GetShared == \E user \in Users, d \in 1..MaxShared : GetDocument(user, d)

DeleteShared ==
    \E user \in Users, d \in 1..MaxShared : DeleteDocument(user, d, "none")

NewVersionShared ==
    \E user \in Users, d \in 1..MaxShared, file \in GoodFiles :
        UploadNewVersion(user, d, file, "none")

UpdateShared ==
    \E user \in Users, d \in 1..MaxShared, patch \in PartialPatches :
        UpdateDocument(user, d, patch, "none")

NextShared ==
    \/ UploadShared /\ UNCHANGED <<faults, call, inflight>>
    \/ GetShared /\ UNCHANGED <<faults, call, inflight>>
    \/ UpdateShared /\ UNCHANGED <<faults, call, inflight>>
    \/ DeleteShared /\ UNCHANGED <<faults, call, inflight>>
    \/ NewVersionShared /\ UNCHANGED <<faults, call, inflight>>

SpecShared == InitShared /\ [][NextShared]_vars

\* ------------------------------------------- tagging runs side by side
\* up to MaxShared documents uploaded by both users, the tagging run of each
\* taking its steps in any interleaving with the other's
NextTagging ==
    \/ UploadShared /\ UNCHANGED <<faults, call, inflight>>
    \/ Start /\ UNCHANGED <<faults, call, inflight>>
    \/ Generate /\ UNCHANGED <<faults, call, inflight>>
    \/ Apply("none") /\ UNCHANGED <<faults, call, inflight>>

SpecTagging == InitShared /\ [][NextTagging]_vars

\* ------------------------------------- version uploads running concurrently
\* upload_new_version taken apart at its awaits: the select that loads the
\* document with its versions into the request's session, the
\* save_upload_file that stores the new file, and the commit.  inflight
\* holds the requests that have loaded the document and not yet ended.
RemoveAt(seq, i) == SubSeq(seq, 1, i - 1) \o SubSeq(seq, i + 1, Len(seq))

\* the DocumentVersion row built from the document as this session loaded it
SnapshotLoaded(loaded_versions, d, row, user) ==
    LET next_version == MaxVersionNumber(loaded_versions) + 1
    IN  [document_id |-> d,
         version_number |-> SnapshotNumber(next_version),
         file_path |-> row.file_path,
         file_size |-> row.file_size,
         checksum |-> row.checksum,
         created_by_id |-> user]

\* the flush at commit: the UPDATE writes the columns this session changed
\* on the row as it stands in the table, and the INSERT adds the version
\* row the session built from the state it had loaded
Flush(stored, rows, r) ==
    [row |-> [f \in DOMAIN stored |->
                 IF r.row[f] # r.loaded[f] THEN r.row[f] ELSE stored[f]],
     version |-> r.version]

\* lines 644-681: the lookup, the checks, and the version row for the
\* state loaded
BeginVersion(user, d, file) ==
    /\ Len(inflight) < MaxRequests
    /\ UNCHANGED <<docs, versions, disk, nextId, tasks, tags, doc_tags,
                   versionUploads>>
    /\ IF d \notin DOMAIN docs
       THEN /\ resp' = Response("version", user, d, 404, NoBody, file)
            /\ UNCHANGED inflight
       ELSE IF ~MayWrite(docs[d], user)
       THEN /\ resp' = Response("version", user, d, 403, NoBody, file)
            /\ UNCHANGED inflight
       ELSE IF ValidateFile(file) # "ok"
       THEN /\ resp' = Response("version", user, d, 400, NoBody, file)
            /\ UNCHANGED inflight
       ELSE /\ inflight' =
                   Append(inflight,
                          [user |-> user, d |-> d, file |-> file,
                           stage |-> "loaded",
                           loaded |-> docs[d],
                           row |-> docs[d],
                           version |->
                               SnapshotLoaded(VersionsOf(versions, d), d,
                                              docs[d], user)])
            /\ UNCHANGED resp

\* lines 683-691: the new file is stored and its fields assigned
SaveVersion(i) ==
    /\ inflight[i].stage = "loaded"
    /\ HasFreshPath
    /\ UNCHANGED <<docs, versions, nextId, tasks, tags, doc_tags,
                   versionUploads>>
    /\ LET r     == inflight[i]
           p     == FreshPath
           saved == SaveUploadFile(r.file.content, p, disk)
       IN  /\ disk' = saved.disk
           /\ IF saved.status = 413
              THEN /\ resp' = Response("version", r.user, r.d, 413, NoBody,
                                       r.file)
                   /\ inflight' = RemoveAt(inflight, i)
              ELSE /\ inflight' =
                          [inflight EXCEPT
                               ![i].stage = "saved",
                               ![i].row = Reupload(r.loaded, r.file, p, saved)]
                   /\ UNCHANGED resp

\* lines 693-717: the metadata is taken from the stored file and the
\* session commits
CommitVersion(i) ==
    /\ inflight[i].stage = "saved"
    /\ inflight[i].d \in DOMAIN docs
    /\ UNCHANGED <<disk, nextId, tasks, tags, doc_tags>>
    /\ LET r == inflight[i]
           w == Flush(docs[r.d], versions, r)
       IN  /\ docs' = [docs EXCEPT ![r.d] = w.row]
           /\ versions' = Append(versions, w.version)
           /\ versionUploads' = [versionUploads EXCEPT ![r.d] = @ + 1]
           /\ resp' = Response("version", r.user, r.d, 200, {w.row}, r.file)
           /\ inflight' = RemoveAt(inflight, i)

UploadRace ==
    /\ nextId <= MaxDocs
    /\ \E user \in Users, file \in GoodFiles :
           UploadDocument(user, file, NoneStr, FALSE, "none")
    /\ UNCHANGED <<faults, call, inflight>>

BeginRace ==
    /\ \E user \in Users, d \in 1..MaxDocs, file \in GoodFiles :
           BeginVersion(user, d, file)
    /\ UNCHANGED <<faults, call>>

SaveRace ==
    /\ \E i \in DOMAIN inflight : SaveVersion(i)
    /\ UNCHANGED <<faults, call>>

CommitRace ==
    /\ \E i \in DOMAIN inflight : CommitVersion(i)
    /\ UNCHANGED <<faults, call>>

NextRace == UploadRace \/ BeginRace \/ SaveRace \/ CommitRace

SpecRace == Init /\ [][NextRace]_vars

\* ------------------------------------------------------------ list_documents
\* the largest page_size the route accepts
MaxPageSize == 100

\* the ids of a set of rows, newest first (ids grow with created_at)
RECURSIVE NewestFirst(_)
NewestFirst(ids) ==
    IF ids = {} THEN <<>>
    ELSE LET newest == CHOOSE d \in ids : \A e \in ids : e <= d
         IN  <<newest>> \o NewestFirst(ids \ {newest})

\* the query selecting, besides the requester's rows, every public row
ListQueryWithPublic(rows, user, status_filter, type_filter) ==
    {d \in DOMAIN rows :
        /\ rows[d].owner_id = user \/ rows[d].is_public
        /\ status_filter # NoneStr => rows[d].status = status_filter
        /\ type_filter # NoneStr => rows[d].document_type = type_filter}

\* the ids the filtered query selects
ListQuery(rows, user, status_filter, type_filter) ==
    {d \in DOMAIN rows :
        /\ rows[d].owner_id = user
        /\ status_filter # NoneStr => rows[d].status = status_filter
        /\ type_filter # NoneStr => rows[d].document_type = type_filter}

\* the ids the count query selects
CountQuery(rows, user) == {d \in DOMAIN rows : rows[d].owner_id = user}

\* query.offset(offset).limit(page_size) on the ordered result
OffsetLimit(ordered, offset, page_size) ==
    SubSeq(ordered, offset + 1, Min(offset + page_size, Len(ordered)))

\* the query parameters of a list request
ListParams(page, page_size, status_filter, type_filter) ==
    [page |-> page, page_size |-> page_size, status_filter |-> status_filter,
     type_filter |-> type_filter]

ListDocuments(user, page, page_size, status_filter, type_filter) ==
    /\ UNCHANGED <<docs, versions, disk, nextId, tasks, tags, doc_tags,
                   versionUploads>>
    /\ IF page < 1 \/ page_size < 1 \/ page_size > MaxPageSize
       THEN resp' = Response("list", user, 0, 422, NoBody,
                        ListParams(page, page_size, status_filter,
                                   type_filter))
       ELSE LET query     == ListQuery(docs, user, status_filter, type_filter)
                total     == Cardinality(CountQuery(docs, user))
                offset    == (page - 1) * page_size
                documents == OffsetLimit(NewestFirst(query), offset, page_size)
            IN  resp' = Response("list", user, 0, 200,
                            [documents |-> [i \in DOMAIN documents |->
                                               [id |-> documents[i],
                                                row |-> docs[documents[i]]]],
                             total |-> total,
                             page |-> page,
                             page_size |-> page_size],
                            ListParams(page, page_size, status_filter,
                                       type_filter))

\* up to MaxFiles documents of both users, some of them published and made
\* public, listed with every combination of the parameters below
Pages == {1, 2}
PageSizes == {1, 2, MaxPageSize + 1}
StatusFilters == {NoneStr, "published"}
TypeFilters == {NoneStr, "pdf"}

InitList ==
    /\ docs = [d \in {} |-> 0]
    /\ versions = <<>>
    /\ disk = [p \in {} |-> <<>>]
    /\ nextId = 1
    /\ tasks = <<>>
    /\ tags = {}
    /\ doc_tags = {}
    /\ resp = Response("none", 0, 0, 0, NoBody, NoFile)
    /\ versionUploads = [d \in 1..MaxFiles |-> 0]
    /\ faults = <<>>
    /\ call = NoCall
    /\ inflight = <<>>

UploadList ==
    \E user \in Users, file \in GoodFiles :
        UploadDocument(user, file, NoneStr, FALSE, "none")

PublishList ==
    \E d \in 1..MaxFiles, patch \in Patches :
        d \in DOMAIN docs /\ UpdateDocument(docs[d].owner_id, d, patch, "none")

List ==
    \E user \in Users, page \in Pages, page_size \in PageSizes,
       status_filter \in StatusFilters, type_filter \in TypeFilters :
        ListDocuments(user, page, page_size, status_filter, type_filter)

NextList ==
    \/ UploadList /\ UNCHANGED <<faults, call, inflight>>
    \/ PublishList /\ UNCHANGED <<faults, call, inflight>>
    \/ List /\ UNCHANGED <<faults, call, inflight>>

SpecList == InitList /\ [][NextList]_vars

\* ------------------------------------------------- DatabaseSessionManager
\* the manager's two attributes; an engine is known by the host it was
\* created for, a sessionmaker by the engine it is bound to
NewManager == [engine |-> NoneStr, sessionmaker |-> NoneStr]

NotInitialized == "DatabaseSessionManager is not initialized"

\* init(host)
ManagerInit(m, host) ==
    [m |-> [engine |-> host, sessionmaker |-> host], outcome |-> "returned"]

\* close() leaving the sessionmaker in place
ManagerCloseEngineOnly(m) ==
    IF m.engine = NoneStr THEN [m |-> m, outcome |-> NotInitialized]
    ELSE [m |-> [m EXCEPT !.engine = NoneStr], outcome |-> "returned"]

\* close(); dispose() returns
ManagerClose(m) ==
    IF m.engine = NoneStr THEN [m |-> m, outcome |-> NotInitialized]
    ELSE [m |-> NewManager, outcome |-> "returned"]

\* entering connect(); with the database down, engine.begin() raises
ManagerConnect(m, db) ==
    IF m.engine = NoneStr THEN [m |-> m, outcome |-> NotInitialized]
    ELSE IF db = "down" THEN [m |-> m, outcome |-> "OperationalError"]
    ELSE [m |-> m, outcome |-> "entered"]

\* entering session(); creating the session opens no connection
ManagerSession(m) ==
    IF m.sessionmaker = NoneStr THEN [m |-> m, outcome |-> NotInitialized]
    ELSE [m |-> m, outcome |-> "entered"]

Hosts == {"sqlite", "postgresql"}

\* the manager and the calls made on it so far, each with its outcome
InitManager ==
    /\ docs = [d \in {} |-> 0]
    /\ versions = <<>>
    /\ disk = [p \in {} |-> <<>>]
    /\ nextId = 1
    /\ tasks = <<>>
    /\ tags = {}
    /\ doc_tags = {}
    /\ resp = Response("none", 0, 0, 0, NoBody, NoFile)
    /\ versionUploads = [d \in 1..MaxDocs |-> 0]
    /\ faults = <<>>
    /\ call = [manager |-> NewManager, log |-> <<>>]
    /\ inflight = <<>>

Called(op, r) ==
    /\ Len(call.log) < MaxOps
    /\ call' = [manager |-> r.m,
                log |-> Append(call.log, [op |-> op, outcome |-> r.outcome])]
    /\ UNCHANGED <<docs, versions, disk, nextId, tasks, tags, doc_tags, resp,
                   versionUploads, faults, inflight>>

CallInit == \E host \in Hosts : Called("init", ManagerInit(call.manager, host))

CallClose == Called("close", ManagerClose(call.manager))

CallConnect ==
    \E db \in {"up", "down"} :
        Called("connect", ManagerConnect(call.manager, db))

CallSession == Called("session", ManagerSession(call.manager))

NextManager == CallInit \/ CallClose \/ CallConnect \/ CallSession

SpecManager == InitManager /\ [][NextManager]_vars

\* ------------------------------------- get_document_type_from_mime alone
MimeTypes ==
    {NoneStr, OctetStream, "application/pdf", "text/markdown", "text/html",
     "text/plain", "image/png"}

FileNames ==
    { <<"a", "pdf">>, <<"a", "PDF">>, <<"a", "md">>, <<"a", "MD">>,
      <<"a", "html">>, <<"a", "htm">>, <<"a", "HTM">>, <<"a", "txt">>,
      <<"a", "exe">>, <<"a", "tar", "md">>, <<"a", "md", "txt">>,
      <<"", "pdf">>, <<"a", "">>, <<"README">>, <<"">> }

InitMime ==
    /\ docs = [d \in {} |-> 0]
    /\ versions = <<>>
    /\ disk = [p \in {} |-> <<>>]
    /\ nextId = 1
    /\ tasks = <<>>
    /\ tags = {}
    /\ doc_tags = {}
    /\ resp = Response("none", 0, 0, 0, NoBody, NoFile)
    /\ versionUploads = [d \in 1..MaxDocs |-> 0]
    /\ faults = <<>>
    /\ call \in [mime_type : MimeTypes, filename : FileNames,
                 result : {NoneStr}]
    /\ inflight = <<>>

Classify ==
    /\ call.result = NoneStr
    /\ call' = [call EXCEPT !.result =
                    GetDocumentTypeFromMime(call.mime_type, call.filename)]
    /\ UNCHANGED <<docs, versions, disk, nextId, tasks, tags, doc_tags, resp,
                   versionUploads, faults, inflight>>

SpecMime == InitMime /\ [][Classify]_vars

\* ------------------------------------- _parse_tags_from_response alone
\* "technology, Python, Web Development, technology"
ExampleResponse ==
    << "t", "e", "c", "h", "n", "o", "l", "o", "g", "y", ",", " ", "P",
       "y", "t", "h", "o", "n", ",", " ", "W", "e", "b", " ", "D", "e",
       "v", "e", "l", "o", "p", "m", "e", "n", "t", ",", " ", "t", "e",
       "c", "h", "n", "o", "l", "o", "g", "y" >>

\* "a,b,a,c,d,e,f,g,h,i": nine different tags, one of them twice
LongResponse ==
    << "a", ",", "b", ",", "a", ",", "c", ",", "d", ",", "e", ",", "f",
       ",", "g", ",", "h", ",", "i" >>

ParseAlphabet == {"a", "A", "b", " ", ","}

\* every response of at most MaxLen characters over the alphabet, and the
\* two long ones
Responses ==
    UNION {[1..k -> ParseAlphabet] : k \in 0..MaxLen}
        \cup {ExampleResponse, LongResponse}

InitParse ==
    /\ docs = [d \in {} |-> 0]
    /\ versions = <<>>
    /\ disk = [p \in {} |-> <<>>]
    /\ nextId = 1
    /\ tasks = <<>>
    /\ tags = {}
    /\ doc_tags = {}
    /\ resp = Response("none", 0, 0, 0, NoBody, NoFile)
    /\ versionUploads = [d \in 1..MaxDocs |-> 0]
    /\ faults = <<>>
    /\ call \in [response : Responses, result : {NoneStr}]
    /\ inflight = <<>>

Parse ==
    /\ call.result = NoneStr
    /\ call' = [call EXCEPT !.result = ParseTagsFromResponse(call.response)]
    /\ UNCHANGED <<docs, versions, disk, nextId, tasks, tags, doc_tags, resp,
                   versionUploads, faults, inflight>>

SpecParse == InitParse /\ [][Parse]_vars

\* --------------------------------------------------- text extraction alone
\* bytes the contents are made of: "H", space, "\n", "\r", the two bytes of
\* "e" with an acute accent in UTF-8, and a byte no UTF-8 text holds
TextBytes == {72, 32, 10, 13, 195, 169, 255}

\* "Hello world\nSecond line"
ExampleText ==
    <<72, 101, 108, 108, 111, 32, 119, 111, 114, 108, 100, 10,
      83, 101, 99, 111, 110, 100, 32, 108, 105, 110, 101>>

TextContents ==
    UNION {[1..k -> TextBytes] : k \in 0..MaxText} \cup {ExampleText}

\* how an attempt to open and read the file ends
IoOutcomes == {"ok", "OSError"}

NotesFile ==
    [filename |-> <<"notes", "txt">>, content_type |-> "text/plain",
     content |-> ExampleText]

InitText ==
    /\ docs = [d \in {} |-> 0]
    /\ versions = <<>>
    /\ disk = [p \in {} |-> <<>>]
    /\ nextId = 1
    /\ tasks = <<>>
    /\ tags = {}
    /\ doc_tags = {}
    /\ resp = Response("none", 0, 0, 0, NoBody, NoFile)
    /\ versionUploads = [d \in 1..MaxDocs |-> 0]
    /\ faults = <<>>
    /\ call = [stage |-> "none"]
    /\ inflight = <<>>

\* extract_text_metadata called on a file holding content
Extract ==
    /\ call.stage = "none"
    /\ \E content \in TextContents, io1 \in IoOutcomes, io2 \in IoOutcomes :
           call' = [stage |-> "extracted", content |-> content,
                    io |-> <<io1, io2>>,
                    result |-> ExtractTextMetadata(content, io1, io2)]
    /\ UNCHANGED <<docs, versions, disk, nextId, tasks, tags, doc_tags, resp,
                   versionUploads, faults, inflight>>

\* extract_text_metadata called once more on a file holding the same bytes
ExtractAgain ==
    /\ call.stage = "extracted"
    /\ \E io1 \in IoOutcomes, io2 \in IoOutcomes :
           call' = [stage |-> "again", content |-> call.content,
                    io |-> <<io1, io2>>,
                    first |-> call.result,
                    result |-> ExtractTextMetadata(call.content, io1, io2)]
    /\ UNCHANGED <<docs, versions, disk, nextId, tasks, tags, doc_tags, resp,
                   versionUploads, faults, inflight>>

\* the row upload_document builds for notes.txt once the file is stored
\* (the size limit of the deployment is far above the example's 23 bytes)
BuildNotesRow ==
    /\ call.stage = "none"
    /\ \E user \in Users, is_public \in BOOLEAN :
           call' = [stage |-> "row", content |-> ExampleText,
                    row |-> NewDocument(NotesFile, NoneStr, is_public, user, 1,
                                [file_size |-> Len(ExampleText),
                                 checksum |-> Sha256(ExampleText)])]
    /\ UNCHANGED <<docs, versions, disk, nextId, tasks, tags, doc_tags, resp,
                   versionUploads, faults, inflight>>

NextText == Extract \/ ExtractAgain \/ BuildNotesRow

SpecText == InitText /\ [][NextText]_vars

\* ================================================================= claims

\* C1 (as claimed; SpecNoFault): after N successful version uploads to a
\* document, the version_number values of its DocumentVersion rows, in the
\* order the rows were created, are 1, 2, 3, ... without gap or repetition,
\* up to N-1 (or up to N, if N is read as not counting the state that lives
\* on the Document).
C1_ContiguousVersionNumbers ==
    \A d \in DOMAIN docs :
        LET rows == VersionsOf(versions, d)
            nums == [i \in 1..Len(rows) |-> rows[i].version_number]
        IN  \E k \in {versionUploads[d] - 1, versionUploads[d]} :
                nums = [i \in 1..k |-> i]

\* C2 (Spec): a successful upload_new_version adds exactly one
\* DocumentVersion row to the document, that newest row carries the
\* file_path, file_size and checksum the Document had before the call, and
\* the call neither removes nor rewrites the superseded file: present before
\* the call, it is on disk with the same bytes after it.  (A step that
\* changes tasks is a step of a tagging run, not of the request.)
C2_SnapshotKeepsPriorFile ==
    [][ (resp'.op = "version" /\ resp'.status = 200 /\ tasks' = tasks) =>
            LET d     == resp'.doc
                old   == docs[d]
                rows  == VersionsOf(versions', d)
                row   == rows[Len(rows)]
            IN  /\ Len(rows) = Len(VersionsOf(versions, d)) + 1
                /\ row.file_path = old.file_path
                /\ row.file_size = old.file_size
                /\ row.checksum = old.checksum
                /\ docs'[d].file_path # old.file_path
                /\ old.file_path \in DOMAIN disk =>
                       /\ old.file_path \in DOMAIN disk'
                       /\ disk'[old.file_path] = disk[old.file_path]
      ]_vars

C2_Witness ==
    /\ resp.op = "version"
    /\ resp.status = 200
    /\ LET rows == VersionsOf(versions, resp.doc)
       IN  /\ rows # <<>>
           /\ rows[Len(rows)].file_path \in DOMAIN disk
           /\ rows[Len(rows)].checksum
                  = Sha256(disk[rows[Len(rows)].file_path])

\* C3 (SpecNoFault): every Document's file exists, and its checksum and
\* file_size are the digest and the length of the bytes stored at its
\* file_path, the digest being taken over the whole content in one piece.
C3_ChecksumMatchesFile ==
    \A d \in DOMAIN docs :
        /\ docs[d].file_path \in DOMAIN disk
        /\ docs[d].checksum = Sha256(disk[docs[d].file_path])
        /\ docs[d].file_size = Len(disk[docs[d].file_path])

C3_Witness ==
    /\ resp.op = "update"
    /\ resp.status = 200
    /\ versionUploads[resp.doc] >= 1
    /\ Len(disk[docs[resp.doc].file_path]) > ChunkSize

\* C4 (as claimed; Spec): a detail request gets a forbidden result whenever
\* the requester is not the owner of a private document, whether or not the
\* id names a document at all.
C4_ForbiddenEvenIfAbsent ==
    resp.op = "get" =>
        \/ /\ resp.doc \in DOMAIN docs
           /\ \/ docs[resp.doc].owner_id = resp.user
              \/ docs[resp.doc].is_public
        \/ resp.status = 403

\* C4 (amended; Spec): a private document is returned to its owner only;
\* any other user gets 403 for it and no field of it; an id that names no
\* document gets 404, whoever asks.
C4_PrivateOnlyOwner ==
    resp.op = "get" =>
        /\ resp.doc \notin DOMAIN docs => resp.status = 404
        /\ (resp.doc \in DOMAIN docs /\ ~docs[resp.doc].is_public) =>
               /\ resp.status = 200 <=> docs[resp.doc].owner_id = resp.user
               /\ docs[resp.doc].owner_id # resp.user =>
                      resp.status = 403 /\ resp.body = NoBody

C4_Witness ==
    /\ resp.op = "get"
    /\ resp.status = 403
    /\ ~docs[resp.doc].is_public
    /\ docs[resp.doc].owner_id # resp.user

\* C5 (Spec): detail retrieval ends in exactly one of three ways: 404 when
\* no Document has the id; 403 when it exists, is not public and the
\* requester is not its owner; otherwise 200 with that document's fields.
C5_ThreeOutcomes ==
    resp.op = "get" =>
        LET exists  == resp.doc \in DOMAIN docs
            allowed == \/ docs[resp.doc].owner_id = resp.user
                       \/ docs[resp.doc].is_public
        IN  /\ resp.status \in {200, 403, 404}
            /\ resp.status = 404 <=> ~exists
            /\ resp.status = 403 <=> (exists /\ ~allowed)
            /\ resp.status = 200 <=> (exists /\ allowed)
            /\ resp.body = IF resp.status = 200 THEN {docs[resp.doc]}
                           ELSE NoBody

C5_Witness ==
    /\ resp.op = "get"
    /\ resp.status = 200
    /\ docs[resp.doc].owner_id # resp.user
    /\ resp.body = {docs[resp.doc]}

\* C6 (Spec): an update, delete or new-version request by a user who is not
\* the owner of the document it names is answered 403 and changes no
\* Document row, no DocumentVersion row and no file.
C6_OwnerOnlyWrites ==
    [][ ( /\ resp'.op \in {"update", "delete", "version"}
          /\ resp'.doc \in DOMAIN docs
          /\ docs[resp'.doc].owner_id # resp'.user ) =>
            /\ resp'.status = 403
            /\ docs' = docs
            /\ versions' = versions
            /\ disk' = disk
      ]_vars

C6_Witness ==
    /\ resp.op \in {"update", "delete", "version"}
    /\ resp.status = 403
    /\ docs[resp.doc].is_public
    /\ docs[resp.doc].owner_id # resp.user

\* C7 (Spec): an upload, and a new-version request that has passed the
\* lookup and the ownership check, is answered 400 exactly when the filename
\* is missing or empty or its lower-cased extension is none of txt, pdf, md,
\* html, htm; a request with such a file writes no file and creates or
\* changes no Document or DocumentVersion row.
C7_ValidationBeforeWriting ==
    [][ resp'.op \in {"upload", "version"} =>
            LET name    == resp'.file.filename
                refused == \/ name \in {<<>>, <<"">>}
                           \/ Lower(Suffix(name))
                                  \notin {"txt", "pdf", "md", "html", "htm"}
                reached == \/ resp'.op = "upload"
                           \/ /\ resp'.doc \in DOMAIN docs
                              /\ docs[resp'.doc].owner_id = resp'.user
            IN  /\ reached => (resp'.status = 400 <=> refused)
                /\ refused =>
                       /\ resp'.status \in {400, 403, 404}
                       /\ docs' = docs
                       /\ versions' = versions
                       /\ disk' = disk
                       /\ nextId' = nextId
      ]_vars

C7_Witness ==
    /\ resp.op \in {"upload", "version"}
    /\ resp.status = 400
    /\ resp.file.filename = <<"setup", "EXE">>

\* C8 (Spec): an upload or new version whose file passes validation is
\* answered 413 exactly when the body is longer than MAX_UPLOAD_SIZE; a 413
\* leaves no file behind and creates or changes no row; a body of exactly
\* MAX_UPLOAD_SIZE bytes is stored.  (A step that changes a record of tasks
\* without adding one is a step of a tagging run, not of a request.)
C8_OversizeAborts ==
    [][ ( /\ resp'.op \in {"upload", "version"}
          /\ tasks' = tasks \/ Len(tasks') # Len(tasks) ) =>
            LET name    == resp'.file.filename
                n       == Len(resp'.file.content)
                refused == \/ name \in {<<>>, <<"">>}
                           \/ Lower(Suffix(name)) \notin ALLOWED_EXTENSIONS
                reached == /\ ~refused
                           /\ \/ resp'.op = "upload"
                              \/ /\ resp'.doc \in DOMAIN docs
                                 /\ docs[resp'.doc].owner_id = resp'.user
            IN  /\ reached => (resp'.status = 413 <=> n > MAX_UPLOAD_SIZE)
                /\ resp'.status = 413 =>
                       /\ disk' = disk
                       /\ docs' = docs
                       /\ versions' = versions
                       /\ nextId' = nextId
                /\ (reached /\ n = MAX_UPLOAD_SIZE /\ faults' = faults) =>
                       /\ resp'.status \in {200, 201}
                       /\ \E p \in DOMAIN disk' \ DOMAIN disk :
                              disk'[p] = resp'.file.content
      ]_vars

C8_Witness ==
    /\ resp.op \in {"upload", "version"}
    /\ resp.status = 413
    /\ Len(resp.file.content) = MAX_UPLOAD_SIZE + 1

\* C9 (as claimed; SpecMime): a recognised MIME type decides the type; the
\* extension decides only when the MIME type is absent or is
\* application/octet-stream; every other combination is "text".
C9_MimeFirst ==
    call.result # NoneStr =>
        LET ext == Lower(Suffix(call.filename))
            byMime == IF call.mime_type = "application/pdf" THEN "pdf"
                      ELSE IF call.mime_type = "text/markdown" THEN "markdown"
                      ELSE IF call.mime_type = "text/html" THEN "html"
                      ELSE "none"
            byExt  == IF ext = "pdf" THEN "pdf"
                      ELSE IF ext = "md" THEN "markdown"
                      ELSE IF ext \in {"html", "htm"} THEN "html"
                      ELSE "none"
        IN  call.result =
                IF byMime # "none" THEN byMime
                ELSE IF call.mime_type \in {NoneStr, OctetStream}
                        /\ byExt # "none"
                     THEN byExt
                     ELSE "text"

\* C9 (amended; SpecMime): the MIME type and the lower-cased extension each
\* name a type or none (application/pdf, .pdf: pdf; text/markdown, .md:
\* markdown; text/html, .html, .htm: html); the result is the one of the two
\* that ranks higher in the order pdf, markdown, html, and "text" when
\* neither names a type.
C9_TypePriority ==
    call.result # NoneStr =>
        LET ext == Lower(Suffix(call.filename))
            rank == [pdf |-> 3, markdown |-> 2, html |-> 1, none |-> 0]
            byMime == IF call.mime_type = "application/pdf" THEN "pdf"
                      ELSE IF call.mime_type = "text/markdown" THEN "markdown"
                      ELSE IF call.mime_type = "text/html" THEN "html"
                      ELSE "none"
            byExt  == IF ext = "pdf" THEN "pdf"
                      ELSE IF ext = "md" THEN "markdown"
                      ELSE IF ext \in {"html", "htm"} THEN "html"
                      ELSE "none"
            best   == IF rank[byMime] >= rank[byExt] THEN byMime ELSE byExt
        IN  call.result = IF best = "none" THEN "text" ELSE best

C9_Witness ==
    /\ call.result = "markdown"
    /\ call.mime_type = "text/plain"
    /\ Suffix(call.filename) = "MD"

\* C10 (Spec): when persisting the Document fails after an upload's file was
\* written, the request ends 500, the file it wrote is gone (the disk is
\* as before the request) and no Document row was added.  (A step that
\* changes a record of tasks without adding one is a step of a tagging run,
\* not of a request.)
C10_FailedUploadLeavesNoFile ==
    [][ ( /\ resp'.op = "upload"
          /\ tasks' = tasks \/ Len(tasks') # Len(tasks) ) =>
            LET name    == resp'.file.filename
                refused == \/ name \in {<<>>, <<"">>}
                           \/ Lower(Suffix(name)) \notin ALLOWED_EXTENSIONS
                stored  == /\ ~refused
                           /\ Len(resp'.file.content) <= MAX_UPLOAD_SIZE
            IN  /\ (stored /\ faults' # faults) => resp'.status = 500
                /\ resp'.status = 500 => disk' = disk
                /\ (resp'.status = 500 /\ resp'.doc = 0) => docs' = docs
      ]_vars

C10_Witness ==
    /\ resp.op = "upload"
    /\ resp.status = 500
    /\ resp.doc = 0
    /\ docs = [d \in {} |-> 0]
    /\ DOMAIN disk = {}

\* C11 (Spec): upload_document creates the tagging task only in a request
\* whose Document commit succeeded and that answers 201, creates exactly one
\* task per such request, for the document just committed, and answers
\* while that task has not taken a step; no step of a tagging run, whatever
\* its outcome, changes the response the upload got, a Document or
\* DocumentVersion row, or a file.
C11_TaggingAfterCommit ==
    [][ /\ Len(tasks') # Len(tasks) =>
               /\ resp'.op = "upload"
               /\ resp'.status = 201
               /\ resp'.doc \in DOMAIN docs' \ DOMAIN docs
               /\ Len(tasks') = Len(tasks) + 1
               /\ SubSeq(tasks', 1, Len(tasks)) = tasks
               /\ tasks'[Len(tasks')].document_id = resp'.doc
               /\ tasks'[Len(tasks')].step = "start"
        /\ (resp'.op = "upload" /\ DOMAIN docs' # DOMAIN docs) =>
               IF resp'.status = 201 THEN Len(tasks') = Len(tasks) + 1
               ELSE tasks' = tasks
        /\ (tasks' # tasks /\ Len(tasks') = Len(tasks)) =>
               /\ resp' = resp
               /\ docs' = docs
               /\ versions' = versions
               /\ disk' = disk
               /\ nextId' = nextId
      ]_vars

C11_Witness ==
    /\ resp.op = "upload"
    /\ resp.status = 201
    /\ resp.body = {docs[resp.doc]}
    /\ Len(tasks) = 1
    /\ tasks[1].document_id = resp.doc
    /\ tasks[1].step = "raised"

\* C12 (as claimed; Spec): no exception leaves a run of the workflow: a run
\* is at Start, Generate or Apply, or it is Done, and a Done run carries a
\* result string.
C12_AlwaysDone ==
    \A i \in DOMAIN tasks :
        /\ tasks[i].step \in {"start", "generate", "apply", "done"}
        /\ tasks[i].step = "done" => tasks[i].result # NoneStr

\* C13 (SpecParse): the result of _parse_tags_from_response is made of the
\* pieces between the commas of the response, each trimmed of surrounding
\* whitespace and lower-cased; pieces that are empty after trimming are
\* left out; of equal pieces only the first stays, at its place; at most the
\* first 7 remain.  The response "technology, Python, Web Development,
\* technology" gives technology, python, web development.
C13_ParsedTags ==
    call.result # NoneStr =>
        LET r == call.response
            n == Len(r)
            commas == {i \in 1..n : r[i] = ","}
            m == Cardinality(commas) + 1
            Comma(k) == CHOOSE i \in commas :
                            Cardinality({j \in commas : j <= i}) = k
            lo(k) == IF k = 1 THEN 0 ELSE Comma(k - 1)
            hi(k) == IF k = m THEN n + 1 ELSE Comma(k)
            inner(k) == {i \in (lo(k) + 1)..(hi(k) - 1) :
                             r[i] \notin {" ", "\n"}}
            first(k) == CHOOSE i \in inner(k) : \A j \in inner(k) : i <= j
            last(k) == CHOOSE i \in inner(k) : \A j \in inner(k) : j <= i
            norm(k) == [j \in 1..(last(k) - first(k) + 1) |->
                            Lower(r[first(k) + j - 1])]
            kept == {k \in 1..m :
                        /\ inner(k) # {}
                        /\ \A k2 \in 1..(k - 1) :
                               inner(k2) # {} => norm(k2) # norm(k)}
            nth(j) == CHOOSE k \in kept :
                          Cardinality({k2 \in kept : k2 <= k}) = j
            len == IF Cardinality(kept) < 7 THEN Cardinality(kept) ELSE 7
        IN  /\ call.result = [j \in 1..len |-> norm(nth(j))]
            /\ r = ExampleResponse =>
                   call.result =
                       << <<"t", "e", "c", "h", "n", "o", "l", "o", "g", "y">>,
                          <<"p", "y", "t", "h", "o", "n">>,
                          <<"w", "e", "b", " ", "d", "e", "v", "e", "l", "o",
                            "p", "m", "e", "n", "t">> >>

C13_Witness ==
    /\ call.response = ExampleResponse
    /\ Len(call.result) = 3
    /\ call.result[2] = <<"p", "y", "t", "h", "o", "n">>

\* C14 (as claimed; Spec): an Apply step that finds its document and meets
\* no database failure ends with the success result, and after it every
\* suggested tag name has exactly one Tag row, associated with the
\* document.
C14_TagsApplied ==
    [][ \A i \in DOMAIN tasks :
            ( /\ tasks[i].step = "apply"
              /\ tasks'[i].step # "apply"
              /\ tasks[i].document_id \in DOMAIN docs
              /\ faults' = faults ) =>
                /\ tasks'[i].step = "done"
                /\ tasks'[i].result = "Successfully applied tags"
                /\ \A k \in 1..Len(tasks[i].suggested_tags) :
                       LET rows == {t \in tags' :
                                       t.name = tasks[i].suggested_tags[k]}
                       IN  /\ Cardinality(rows) = 1
                           /\ \A t \in rows :
                                  <<tasks[i].document_id, t.id>> \in doc_tags'
      ]_vars

\* C15 (as claimed; Spec): an Apply step whose document no longer exists
\* ends with the result "Document not found" and leaves the Tag rows and the
\* tag associations as they were.
C15_DocumentNotFound ==
    [][ \A i \in DOMAIN tasks :
            ( /\ tasks[i].step = "apply"
              /\ tasks'[i].step # "apply"
              /\ tasks[i].document_id \notin DOMAIN docs ) =>
                /\ tasks'[i].step = "done"
                /\ tasks'[i].result = "Document not found"
                /\ tags' = tags
                /\ doc_tags' = doc_tags
      ]_vars

\* C16 (Spec): an Apply step never ends with an exception leaving the
\* workflow: the run is Done afterwards, with a result string; when that
\* result reports an error, no Tag row and no tag association was added or
\* changed; and a run that has ended is never run again (its record stays
\* as it is, and no step other than a 201 upload creates a run).
C16_ApplyFailureContained ==
    [][ /\ \A i \in DOMAIN tasks :
               /\ (tasks[i].step = "apply" /\ tasks'[i] # tasks[i]) =>
                      /\ tasks'[i].step = "done"
                      /\ tasks'[i].result \in
                             {"Successfully applied tags",
                              "Document not found", "Error applying tags"}
                      /\ tasks'[i].result = "Error applying tags" =>
                             tags' = tags /\ doc_tags' = doc_tags
                      /\ Len(tasks') = Len(tasks)
               /\ tasks[i].step \in {"done", "raised"} =>
                      tasks'[i] = tasks[i]
      ]_vars

C16_Witness ==
    /\ faults # <<>>
    /\ \E i \in DOMAIN tasks :
           /\ tasks[i].step = "done"
           /\ tasks[i].result = "Error applying tags"
           /\ tasks[i].suggested_tags # <<>>
    /\ tags = {}
    /\ doc_tags = {}

\* C17 (Spec): a new-version request that fails at validation, at the size
\* limit or at commit persists neither a DocumentVersion row nor any change
\* of a Document; in every new-version request the snapshot row and the
\* change of the Document are persisted together or not at all (a failure
\* of the refresh after the commit leaves both persisted); and a Document
\* whose checksum and size described the file at its file_path before the
\* request has a file at its file_path that its checksum and size describe
\* after it.
C17_VersionUploadAtomic ==
    [][ resp'.op = "version" =>
            LET d == resp'.doc
                Describes(row, dk) ==
                    /\ row.file_path \in DOMAIN dk
                    /\ row.checksum = Sha256(dk[row.file_path])
                    /\ row.file_size = Len(dk[row.file_path])
                failed == \/ resp'.status \in {400, 413}
                          \/ /\ faults' # faults
                             /\ faults'[Len(faults')] = "commit"
            IN  /\ failed => (docs' = docs /\ versions' = versions)
                /\ docs' # docs <=> versions' # versions
                /\ versions' # versions =>
                       /\ Len(versions') = Len(versions) + 1
                       /\ versions'[Len(versions')].file_path
                              = docs[d].file_path
                       /\ docs'[d].file_path # docs[d].file_path
                /\ (d \in DOMAIN docs /\ Describes(docs[d], disk)) =>
                       Describes(docs'[d], disk')
      ]_vars

C17_Witness ==
    /\ resp.op = "version"
    /\ resp.status = 500
    /\ faults = <<"commit">>
    /\ versions = <<>>
    /\ resp.doc \in DOMAIN docs
    /\ docs[resp.doc].checksum = Sha256(disk[docs[resp.doc].file_path])
    /\ Cardinality(DOMAIN disk) = 2

\* C18 (as claimed; Spec): every Document has a current file, which exists
\* on disk at its file_path; no DocumentVersion row of the document and no
\* other Document refers to that path.
C18_CurrentFileOnDisk ==
    \A d \in DOMAIN docs :
        /\ docs[d].file_path \in DOMAIN disk
        /\ \A e \in DOMAIN docs \ {d} : docs[e].file_path # docs[d].file_path
        /\ \A i \in DOMAIN versions :
               versions[i].file_path # docs[d].file_path

\* C19 (SpecShared): a delete answered 204 was asked by the owner; after it
\* the document's current file is off the disk, the Document row, all its
\* DocumentVersion rows and its tag associations are gone, the response has
\* no body, the Tag rows are as before, and every other document keeps its
\* row, its DocumentVersion rows, its tag associations and its file; the id
\* of a deleted document names no document ever after, and a detail request
\* for an id that names no document is answered 404.
C19_DeleteRemovesDocument ==
    [][ /\ (resp'.op = "delete" /\ resp'.status = 204) =>
               LET d == resp'.doc
               IN  /\ d \notin DOMAIN docs'
                   /\ VersionsOf(versions', d) = <<>>
                   /\ \A pr \in doc_tags' : pr[1] # d
                   /\ resp'.body = NoBody
                   /\ tags' = tags
                   /\ d \in DOMAIN docs =>
                          /\ docs[d].owner_id = resp'.user
                          /\ docs[d].file_path \notin DOMAIN disk'
                          /\ \A e \in DOMAIN docs \ {d} :
                                 /\ e \in DOMAIN docs'
                                 /\ docs'[e] = docs[e]
                                 /\ VersionsOf(versions', e)
                                        = VersionsOf(versions, e)
                                 /\ {pr \in doc_tags' : pr[1] = e}
                                        = {pr \in doc_tags : pr[1] = e}
                                 /\ docs[e].file_path \in DOMAIN disk'
                                 /\ disk'[docs[e].file_path]
                                        = disk[docs[e].file_path]
        /\ \A d \in 1..MaxShared :
               (d < nextId /\ d \notin DOMAIN docs) => d \notin DOMAIN docs'
        /\ (resp'.op = "get" /\ resp'.doc \notin DOMAIN docs') =>
               resp'.status = 404
      ]_vars

C19_Witness ==
    /\ resp.op = "delete"
    /\ resp.status = 204
    /\ resp.doc = 1
    /\ DOMAIN docs = {2}
    /\ versions # <<>>
    /\ \A i \in DOMAIN versions : versions[i].document_id = 2
    /\ docs[2].file_path \in DOMAIN disk
    /\ Cardinality(DOMAIN disk) = 2

C27_NoOrphanedFile ==
    \A p \in DOMAIN disk :
        \/ \E d \in DOMAIN docs : docs[d].file_path = p
        \/ \E i \in DOMAIN versions : versions[i].file_path = p

\* C28 (Spec): an upload request answered with a server error has committed
\* no Document row and started no tagging run, and its stored file is gone
\* only because no row was committed for it.
C28_FailedUploadCommitsNothing ==
    [][ ( /\ resp'.op = "upload"
          /\ resp'.status = 500
          /\ tasks' = tasks \/ Len(tasks') # Len(tasks) )
            => /\ docs' = docs
               /\ tasks' = tasks
      ]_vars

\* C30 (SpecNoFault): after every sequence of upload and new-version
\* requests, each Document's document_type, and its concrete subtype, is the
\* classification get_document_type_from_mime gives for its current
\* mime_type and file_name.
C30_TypeFollowsCurrentFile ==
    \A d \in DOMAIN docs :
        LET t == GetDocumentTypeFromMime(docs[d].mime_type, docs[d].file_name)
        IN  /\ docs[d].document_type = t
            /\ docs[d].kind = IF t = "pdf" THEN "pdf" ELSE "text"

\* a byte string that is well-formed UTF-8 (within one- and two-byte
\* sequences): every byte is below 128, or a lead byte 194..223 followed by
\* a continuation byte 128..191, or a continuation byte that follows a lead
\* byte
C22_Decodable(bytes) ==
    \A i \in 1..Len(bytes) :
        \/ bytes[i] < 128
        \/ /\ bytes[i] \in 194..223
           /\ i < Len(bytes)
           /\ bytes[i + 1] \in 128..191
        \/ /\ bytes[i] \in 128..191
           /\ i > 1
           /\ bytes[i - 1] \in 194..223

C23_ExampleThreeWords ==
    call.stage = "row" =>
        /\ call.row.line_count = 2
        /\ call.row.word_count = 3
        /\ call.row.character_count = 23
        /\ call.row.document_type = "text"
        /\ call.row.status = "draft"

\* C23 (amended; SpecText): uploading notes.txt holding
\* "Hello world\nSecond line" produces a document with line_count 2,
\* word_count 4 (Hello, world, Second, line), character_count 23,
\* document_type "text" and status "draft".
C23_ExampleFourWords ==
    call.stage = "row" =>
        /\ call.row.line_count = 2
        /\ call.row.word_count = 4
        /\ call.row.character_count = 23
        /\ call.row.document_type = "text"
        /\ call.row.status = "draft"

C23_Witness ==
    /\ call.stage = "row"
    /\ call.row.file_name = <<"notes", "txt">>
    /\ call.row.file_size = 23
    /\ call.row.encoding = "utf-8"
    /\ call.row.kind = "text"

\* C21 (SpecList): a list request is answered 200 exactly when its
\* page_size is at most 100 (page and page_size being at least 1), and then
\* the documents returned are rows as stored, all owned by the requester
\* (never another user's, public or not) and all matching the status and
\* type filters given, at most page_size of them, newest first, namely the
\* matching rows that have exactly (page-1)*page_size, (page-1)*page_size+1,
\* ... newer matching rows of the requester before them; page and page_size
\* come back as requested.
C21_ListOwnPage ==
    resp.op = "list" =>
        LET q == resp.file
            matches(d) ==
                /\ docs[d].owner_id = resp.user
                /\ q.status_filter = NoneStr \/ docs[d].status = q.status_filter
                /\ q.type_filter = NoneStr
                       \/ docs[d].document_type = q.type_filter
            matching == {d \in DOMAIN docs : matches(d)}
            newer(d) == Cardinality({e \in matching : e > d})
            offset == (q.page - 1) * q.page_size
        IN  /\ resp.status = 200 <=> q.page_size <= 100
            /\ resp.status = 200 =>
                   LET items == resp.body.documents
                   IN  /\ Len(items) <= q.page_size
                       /\ \A i \in DOMAIN items :
                              /\ items[i].id \in matching
                              /\ items[i].row = docs[items[i].id]
                              /\ newer(items[i].id) = offset + i - 1
                       /\ \A d \in matching :
                              (newer(d) >= offset
                                   /\ newer(d) < offset + q.page_size)
                                  => \E i \in DOMAIN items : items[i].id = d
                       /\ resp.body.page = q.page
                       /\ resp.body.page_size = q.page_size

\* user 1 asks for the second page of size 1 of their published documents
\* and gets the older of their two, while user 2 has a public published
\* document
C21_Witness ==
    /\ resp.op = "list"
    /\ resp.status = 200
    /\ resp.user = 1
    /\ resp.file.page = 2
    /\ resp.file.page_size = 1
    /\ resp.file.status_filter = "published"
    /\ Len(resp.body.documents) = 1
    /\ \E d \in DOMAIN docs : docs[d].owner_id = 2 /\ docs[d].is_public
    /\ \E d \in DOMAIN docs :
           /\ d > resp.body.documents[1].id
           /\ docs[d].owner_id = 1
           /\ docs[d].status = "published"

\* C29 (SpecList): the total of a list response is the number of the
\* requester's documents that match the status and type filters of the
\* request.
C29_TotalCountsFiltered ==
    (resp.op = "list" /\ resp.status = 200) =>
        resp.body.total =
            Cardinality({d \in DOMAIN docs :
                /\ docs[d].owner_id = resp.user
                /\ resp.file.status_filter = NoneStr
                       \/ docs[d].status = resp.file.status_filter
                /\ resp.file.type_filter = NoneStr
                       \/ docs[d].document_type = resp.file.type_filter})

\* C24 (SpecManager): in every sequence of init, close, session and connect
\* calls, a close, session or connect call raises "DatabaseSessionManager
\* is not initialized" exactly when no init call came before it or a close
\* call has returned since the last init call; after a close call that
\* returned, engine and sessionmaker are both None, and so a close call
\* that follows it raises.
C24_RaisesIffUninitialised ==
    "log" \in DOMAIN call =>
        LET log == call.log
            n == Len(log)
            closes(j) == log[j].op = "close" /\ log[j].outcome = "returned"
            uninitialised(i) ==
                \/ \A j \in 1..(i - 1) : log[j].op # "init"
                \/ \E j \in 1..(i - 1) :
                       /\ closes(j)
                       /\ \A k \in (j + 1)..(i - 1) : log[k].op # "init"
        IN  /\ \A i \in 1..n :
                   log[i].op \in {"close", "session", "connect"} =>
                       (log[i].outcome = NotInitialized <=> uninitialised(i))
            /\ (n > 0 /\ closes(n)) =>
                   /\ call.manager.engine = NoneStr
                   /\ call.manager.sessionmaker = NoneStr
            /\ \A i \in 2..n :
                   (closes(i - 1) /\ log[i].op = "close") =>
                       log[i].outcome = NotInitialized

\* init, close, a second close that raises, and a session that raises too
C24_Witness ==
    /\ "log" \in DOMAIN call
    /\ Len(call.log) = 4
    /\ call.log[1] = [op |-> "init", outcome |-> "returned"]
    /\ call.log[2] = [op |-> "close", outcome |-> "returned"]
    /\ call.log[3] = [op |-> "close", outcome |-> NotInitialized]
    /\ call.log[4] = [op |-> "session", outcome |-> NotInitialized]
    /\ call.manager = NewManager

\* C26 (SpecTagging): when the tagging runs of two different documents have
\* both terminated and both had suggested one same tag name, both have the
\* success result, exactly one Tag row has that name, and it is associated
\* with both documents.
C26_SharedTagAppliedToBoth ==
    \A i, j \in DOMAIN tasks :
        \A k \in DOMAIN tasks[i].suggested_tags :
            LET name == tasks[i].suggested_tags[k]
            IN  ( /\ tasks[i].document_id # tasks[j].document_id
                  /\ tasks[i].step \in {"done", "raised"}
                  /\ tasks[j].step \in {"done", "raised"}
                  /\ \E m \in DOMAIN tasks[j].suggested_tags :
                         tasks[j].suggested_tags[m] = name )
                    => /\ tasks[i].result = "Successfully applied tags"
                       /\ tasks[j].result = "Successfully applied tags"
                       /\ \E t \in tags :
                              /\ t.name = name
                              /\ \A u \in tags : u.name = name => u = t
                              /\ <<tasks[i].document_id, t.id>> \in doc_tags
                              /\ <<tasks[j].document_id, t.id>> \in doc_tags

\* C25 (SpecRace): with up to MaxRequests version uploads of one document
\* in flight at a time, interleaved at their awaits, whenever a commit
\* replaces the document's current file, the state replaced is recorded in
\* a DocumentVersion row of that document afterwards (its file_path,
\* file_size and checksum): no committed state is overwritten without
\* having been snapshotted.
C25_OverwrittenStateSnapshotted ==
    [][ \A d \in DOMAIN docs \cap DOMAIN docs' :
            docs'[d].file_path # docs[d].file_path =>
                \E i \in DOMAIN versions' :
                    /\ versions'[i].document_id = d
                    /\ versions'[i].file_path = docs[d].file_path
                    /\ versions'[i].file_size = docs[d].file_size
                    /\ versions'[i].checksum = docs[d].checksum
      ]_vars
====
